---- MODULE Spec2Model ----
(***************************************************************************)
(* State-machine model of the auto-moderation engine of the bot            *)
(* (src/extensions/automod.py): the policy store (get_policies), the       *)
(* detector pipeline (scan_messages) and the punishment engine (punish),   *)
(* run as cooperative tasks on one event loop.                             *)
(*                                                                         *)
(* A task runs without interruption between two suspension points          *)
(* (awaits of external I/O).  The variable cur names the task that holds   *)
(* the event loop; it is 0 while every task is suspended.                  *)
(*                                                                         *)
(* The moderation actions the engine calls (src/extensions/moderation.py:  *)
(* warn, timeout, ban) and the listeners of completed timers are modelled  *)
(* as coroutines of their own, one step per block between two awaits.      *)
(***************************************************************************)
EXTENDS Integers, Sequences, FiniteSets, TLC

\* ------------------------------------------------------------------ bounds
MaxTasks == 2
MaxCalls == 3
MaxClock == 5
\* The longest timeout applied at once, in clock units of the model.
MAX_TIMEOUT_SECONDS == 2
MaxTime == 30
TickStep == 10

Tasks == 1..MaxTasks

\* --------------------------------------------------------------- universes
Members == {"m1", "m2"}
BotUsers == {"b1"}
Channels == {"c1", "c2"}
Roles == {"r1"}

None == "none"

\* AutomodActionType, in the order of the enum
AutomodActionType ==
    {"invites", "spam", "mass_mentions", "attach_spam", "link_spam", "caps",
     "bad_words", "escalate", "perspective"}

\* AutoModState
AutoModState ==
    {"disabled", "flag", "notice", "warn", "escalate", "timeout", "kick",
     "softban", "tempban", "permaban"}

\* The detector categories in the order scan_messages evaluates them.
Pipeline ==
    <<"mass_mentions", "spam", "attach_spam", "caps", "bad_words", "invites",
      "link_spam", "perspective">>

DetectorCats == {Pipeline[i] : i \in DOMAIN Pipeline}

\* ------------------------------------------------------------ rate limiter
Limiters == {"spam", "punish", "attach_spam", "link_spam", "escalate_prewarn", "escalate"}

\* utils.RateLimiter(period, limit, ...): the first constructor argument
period(l) == IF l = "spam" THEN 10 ELSE 30

\* utils.RateLimiter(period, limit, ...): the second constructor argument
limit(l) == IF l = "spam" THEN 8 ELSE 1

\* The last n entries of sequence s.
LastN(s, n) == IF Len(s) <= n THEN s ELSE SubSeq(s, Len(s) - n + 1, Len(s))

\* The recorded events of a bucket that lie in the trailing window at time t.
InWindow(bucket, l, t) == {i \in DOMAIN bucket : t - bucket[i] < period(l)}

\* The events a limiter holds for a key: a key it has never seen has none.
Bucket(b, l, key) == IF key \in DOMAIN b[l] THEN b[l][key] ELSE <<>>

is_rate_limited_off_by_one(b, l, key, t) ==
    Cardinality(InWindow(Bucket(b, l, key), l, t)) > limit(l)

is_rate_limited_unknown_key_limited(b, l, key, t) ==
    key \notin DOMAIN b[l] \/ Cardinality(InWindow(Bucket(b, l, key), l, t)) >= limit(l)

\* RateLimiter.is_rate_limited: a pure read; an absent bucket is an empty one.
is_rate_limited(b, l, key, t) ==
    Cardinality(InWindow(Bucket(b, l, key), l, t)) >= limit(l)

acquire_for_every_key(b, l, key, t) ==
    [b EXCEPT ![l] = [m \in Members |-> LastN(Append(Bucket(b, l, m), t), limit(l))]]

\* RateLimiter.acquire with wait=False: records one event and returns at once.
\* The bucket keeps the window's most recent limit(l) events, which decide
\* is_rate_limited.
acquire(b, l, key, t) ==
    [b EXCEPT ![l] = (key :> LastN(Append(Bucket(b, l, key), t), limit(l))) @@ @]

\* ------------------------------------------------------------ policy store
DefaultNested ==
    [state |-> "disabled", excluded_channels |-> {}, excluded_roles |-> {},
     temp_dur |-> 15, delete |-> TRUE]

\* etc.settings_static.default_automod_policies
default_automod_policies ==
    [c \in AutomodActionType |->
        IF c = "mass_mentions" THEN [DefaultNested EXCEPT !.delete = TRUE] @@ [count |-> 10]
        ELSE IF c = "bad_words"
            THEN DefaultNested @@ [words_list |-> {"bad", "very bad"}, words_list_wildcard |-> {"wild"}]
        ELSE IF c = "perspective" THEN DefaultNested @@ [persp_bounds |-> 90]
        ELSE IF c = "spam" THEN [DefaultNested EXCEPT !.delete = FALSE]
        ELSE DefaultNested]

\* db_cache.get returns a list of rows: empty, or the guild's one row, whose
\* automod_policies column json.loads turns into a dict.
NoRow == <<>>

\* The keys of a dict in iteration order.
RECURSIVE KeySeq(_)
KeySeq(S) == IF S = {} THEN <<>> ELSE LET k == CHOOSE x \in S : TRUE IN <<k>> \o KeySeq(S \ {k})

FillNested_resets(entry, key, nested) == default_automod_policies[key]

\* for nested_key in default[key].keys(): fill a missing nested key
RECURSIVE FillNested(_, _, _)
FillNested(entry, key, nested) ==
    IF nested = <<>> THEN entry
    ELSE LET nk == Head(nested)
             e1 == IF nk \notin DOMAIN entry
                   THEN (nk :> default_automod_policies[key][nk]) @@ entry
                   ELSE entry
         IN FillNested(e1, key, Tail(nested))

\* for key in default.keys(): fill a missing key, then its missing nested keys
RECURSIVE FillKeys(_, _)
FillKeys(policies, keys) ==
    IF keys = <<>> THEN policies
    ELSE LET key == Head(keys)
             p1 == IF key \notin DOMAIN policies
                   THEN (key :> default_automod_policies[key]) @@ policies
                   ELSE policies
             p2 == [p1 EXCEPT ![key] =
                       FillNested(@, key, KeySeq(DOMAIN default_automod_policies[key]))]
         IN FillKeys(p2, Tail(keys))

\* invalid = [key for key in policies if key not in default]; pop each
DropInvalid(policies) ==
    [key \in {k \in DOMAIN policies : k \in DOMAIN default_automod_policies} |-> policies[key]]

get_policies_keeps_unknown(records) ==
    FillKeys(IF records # NoRow THEN records[1] ELSE default_automod_policies,
             KeySeq(DOMAIN default_automod_policies))

\* get_policies(guild): records is the guild's stored row, parsed, or NoRow
get_policies(records) ==
    DropInvalid(FillKeys(IF records # NoRow THEN records[1] ELSE default_automod_policies,
                         KeySeq(DOMAIN default_automod_policies)))

\* ------------------------------------------------- stored policy documents
\* The detector categories at odd places of the pipeline.
OddCats == {Pipeline[i] : i \in {j \in DOMAIN Pipeline : j % 2 = 1}}

\* A complete stored document: the detectors in enabled have state s, the
\* others are disabled, escalate has state e; x selects which categories
\* exclude channel c1 / role r1 and which delete the message.
MkDoc(s, enabled, e, x) ==
    [c \in AutomodActionType |->
        LET wide == (x = "A")
            base == [state |-> IF c = "escalate" THEN e
                               ELSE IF c \in enabled THEN s ELSE "disabled",
                     excluded_channels |-> IF wide \/ c \in OddCats THEN {"c1"} ELSE {},
                     excluded_roles |-> IF ~wide \/ c \in OddCats THEN {"r1"} ELSE {},
                     temp_dur |-> IF c = "escalate" THEN 15 ELSE 5,
                     delete |-> (wide <=> (c \in OddCats \/ c = "spam"))]
        IN  IF c = "mass_mentions" THEN base @@ [count |-> 2]
            ELSE IF c = "bad_words"
                THEN base @@ [words_list |-> {"bad", "very bad"}, words_list_wildcard |-> {"wild"}]
            ELSE IF c = "perspective" THEN base @@ [persp_bounds |-> 90]
            ELSE base]

EnabledSets ==
    {{c} : c \in DetectorCats} \cup {{"attach_spam", "caps"}, DetectorCats}

\* (state of the enabled detectors, state of escalate)
StatePairs ==
    {<<s, "timeout">> : s \in AutoModState \ {"disabled", "escalate"}}
        \cup {<<"escalate", e>> : e \in AutoModState}

WideRows ==
    {NoRow} \cup
    {<<MkDoc(sp[1], en, sp[2], x)>> : sp \in StatePairs, en \in EnabledSets, x \in {"A", "B"}}

\* ------------------------------------------------------------------ messages
\* A message's text by what the detectors read of it: len(content), its
\* alphanumeric and uppercase alphanumeric characters, content.lower().split(" "),
\* the listed expressions that are substrings of content.lower(), whether the
\* invite regex finds a match, and how many matches the link regex finds.
Text(len, alnum, upper, words, subs, invite, links) ==
    [len |-> len, alnum |-> alnum, upper |-> upper, words |-> words, subs |-> subs,
     invite |-> invite, links |-> links]

NoText == Text(0, 0, 0, {}, {}, FALSE, 0)

\* (mentioned users, has attachments, text)
Bodies ==
    { <<{}, FALSE, Text(15, 15, 15, {"ok"}, {}, FALSE, 0)>>,
      <<{"m1", "m2", "u3"}, TRUE, Text(20, 20, 13, {"ok"}, {}, FALSE, 0)>>,
      <<{"m1", "m2", "b1"}, FALSE, Text(20, 20, 10, {"ok"}, {}, FALSE, 0)>>,
      <<{}, TRUE, NoText>>,
      <<{}, TRUE, Text(20, 20, 13, {"bad"}, {"bad"}, FALSE, 0)>>,
      <<{}, FALSE, Text(20, 0, 0, {"ok"}, {"very bad"}, TRUE, 0)>>,
      <<{}, FALSE, Text(16, 10, 6, {"ok"}, {"wild"}, TRUE, 8)>>,
      <<{}, FALSE, Text(30, 20, 2, {"ok"}, {}, TRUE, 8)>>,
      <<{}, FALSE, Text(30, 20, 2, {"ok"}, {}, FALSE, 8)>>,
      <<{}, FALSE, Text(30, 20, 2, {"ok"}, {}, FALSE, 7)>>,
      <<{}, FALSE, Text(30, 20, 2, {"ok"}, {}, FALSE, 1)>>,
      <<{}, FALSE, Text(30, 20, 2, {"ok"}, {}, FALSE, 0)>> }

\* (channel, the member's roles, helpers.can_harm(me, offender, required_perms))
Standings ==
    { <<"c2", {}, TRUE>>, <<"c1", {}, TRUE>>, <<"c2", {"r1"}, TRUE>>, <<"c2", {}, FALSE>> }

Msg(author, member, bot, st, body) ==
    [author |-> author, is_member |-> member, is_bot |-> bot,
     channel |-> st[1], roles |-> st[2], can_harm |-> st[3],
     mentions |-> body[1], attachments |-> body[2], content |-> body[3]]

NoMsg == Msg(None, FALSE, FALSE, <<"c2", {}, FALSE>>, <<{}, FALSE, NoText>>)

Messages ==
    {Msg(a, TRUE, FALSE, st, b) : a \in Members, st \in Standings, b \in Bodies}

\* Messages that scan_messages ignores: written by a bot, or by a user who is
\* not a member of the guild.
IgnoredMessages ==
    {Msg(a[1], a[2], a[3], <<"c2", {}, TRUE>>, b) :
        a \in {<<"b1", TRUE, TRUE>>, <<"u3", FALSE, FALSE>>},
        b \in {x \in Bodies : x[2] /\ x[3].len = 20}}

\* -------------------------------------------------------------------- state
VARIABLES
    now,        \* the clock, in seconds
    stored,     \* the guild's rows in mod_config: NoRow or <<document>>
    mod_loaded, \* whether the Moderation plugin is loaded
    buckets,    \* the six limiters' buckets: limiter -> member -> event times
    hist,       \* every acquire ever made: limiter -> member -> event times
    tasks,      \* the message-processing coroutines
    cur,        \* the task holding the event loop, 0 when all are suspended
    warns,      \* the users table: member -> stored warn counter
    warns0,     \* the warn counters before the first call (history)
    timers,     \* the scheduler's pending timers
    banned,     \* the guild's banned users
    present,    \* the members in the guild
    until,      \* member -> the communication_disabled_until last applied
    calls       \* the moderation coroutines, in order of their start

modvars == <<warns, warns0, timers, banned, present, until, calls>>

automodvars == <<stored, mod_loaded, buckets, hist, tasks, cur>>

vars == <<now, stored, mod_loaded, buckets, hist, tasks, cur, modvars>>

\* A moderation coroutine: the operation, its position, the member it is
\* about, the requested expiry T, and the warn count of its db_user object.
CallIds == 1..MaxCalls

IdleCall == [op |-> None, pc |-> "idle", member |-> None, T |-> 0, db_user |-> 0]

\* No timeout was applied: otherwise the expiry and the time it was applied at.
NoTimeout == [expiry |-> 0, at |-> 0]

\* The moderation plugin at rest, with every member in the guild.
NoModeration ==
    /\ warns = [m \in Members |-> 0]
    /\ warns0 = warns
    /\ timers = {}
    /\ banned = {}
    /\ present = Members
    /\ until = [m \in Members |-> NoTimeout]
    /\ calls = [c \in CallIds |-> IdleCall]

\* One recorded effect of a task: a punish entry, a limiter acquire, or a call
\* to an external collaborator with its arguments: a is a category, a limiter
\* or a kind of ban, d an expiry time, and at the time d was computed at.
Ev(k, a, d, at) == [k |-> k, a |-> a, d |-> d, at |-> at, ok |-> TRUE]

IdleTask ==
    [pc |-> "idle", msg |-> NoMsg, policies |-> default_automod_policies,
     action |-> None, original |-> None, ret |-> None, todo |-> <<>>, log |-> <<>>]

\* The program points at which a task holds the event loop.
Running(pc) ==
    pc \notin {"idle", "get_policies", "maybe_delete", "external", "analyze", "done", "error"}

\* The task's new state is tk: it keeps the event loop iff it is not suspended.
Step(t, tk) ==
    /\ tasks' = [tasks EXCEPT ![t] = tk]
    /\ cur' = IF Running(tk.pc) THEN t ELSE 0

\* The limiters after construction: no key has a bucket.
EmptyBuckets == [l \in Limiters |-> [m \in {} |-> <<>>]]

\* m1 has sent 7 messages in the current spam window; m2 has sent none, and
\* has tripped the link_spam limiter.
BusyBuckets ==
    [EmptyBuckets EXCEPT !["spam"] = ("m1" :> <<0, 0, 0, 0, 0, 0, 0>>),
                         !["link_spam"] = ("m2" :> <<0>>)]

\* The acquires made so far, for the two bucket states above.
EmptyHistory == [l \in Limiters |-> [m \in Members |-> <<>>]]

BusyHistory ==
    [EmptyHistory EXCEPT !["spam"]["m1"] = <<0, 0, 0, 0, 0, 0, 0>>,
                         !["link_spam"]["m2"] = <<0>>]

\* --------------------------------------------------------------- operations
\* Both records of an acquire: the limiter's bucket and the history.
Record(bh, l, key, t) ==
    [b |-> acquire(bh.b, l, key, t), h |-> [bh.h EXCEPT ![l][key] = Append(@, t)]]

Limits == [b |-> buckets, h |-> hist]

SetLimits(bh) == buckets' = bh.b /\ hist' = bh.h

\* await punish(message, policies, action, reason): the call enters punish;
\* ret is where the caller goes on when punish returns.
CallPunish(tk, action, ret) ==
    [tk EXCEPT !.pc = "punish", !.action = action, !.original = None, !.ret = ret,
               !.log = Append(@, Ev("punish", action, 0, 0))]

\* punish returns to scan_messages: "return await punish(...)" ends the task,
\* the attach_spam branch goes on with the content detectors.
Returned(tk) ==
    IF tk.ret = "content" THEN [tk EXCEPT !.pc = "caps"] ELSE [tk EXCEPT !.pc = "done"]

\* A gateway event delivers message m to scan_messages, which runs up to its
\* first await (get_policies).
MessageEvent(t, m) ==
    /\ cur = 0
    /\ tasks[t].pc = "idle"
    /\ IF t = 1 THEN TRUE ELSE tasks[t - 1].pc # "idle"
    /\ Step(t, [tasks[t] EXCEPT !.msg = m,
                                !.pc = IF ~m.is_member \/ m.is_bot THEN "done"
                                       ELSE "get_policies"])
    /\ UNCHANGED <<modvars, now, stored, mod_loaded, buckets, hist>>

\* policies = await get_policies(message.guild_id)
FetchPolicies(t) ==
    /\ cur = 0
    /\ tasks[t].pc = "get_policies"
    /\ Step(t, [tasks[t] EXCEPT !.policies = get_policies(stored), !.pc = "mass_mentions"])
    /\ UNCHANGED <<modvars, now, stored, mod_loaded, buckets, hist>>

CountMentions_with_self_and_bots(m) == Cardinality(m.mentions)

\* sum(user.id != message.author.id and not user.is_bot for user in mentions)
CountMentions(m) == Cardinality({u \in m.mentions : u # m.author /\ u \notin BotUsers})

ScanMassMentions(t) ==
    LET tk == tasks[t] IN
    /\ cur = t
    /\ tk.pc = "mass_mentions"
    /\ IF /\ tk.policies["mass_mentions"].state # "disabled"
          /\ CountMentions(tk.msg) >= tk.policies["mass_mentions"].count
       THEN Step(t, CallPunish(tk, "mass_mentions", "return"))
       ELSE Step(t, [tk EXCEPT !.pc = "spam"])
    /\ UNCHANGED <<modvars, now, stored, mod_loaded, buckets, hist>>

ScanSpam(t) ==
    LET tk == tasks[t]
        bh == Record(Limits, "spam", tk.msg.author, now)
        tk1 == [tk EXCEPT !.log = Append(@, Ev("acquire", "spam", 0, 0))]
    IN
    /\ cur = t
    /\ tk.pc = "spam"
    /\ SetLimits(bh)
    /\ IF /\ tk.policies["spam"].state # "disabled"
          /\ is_rate_limited(bh.b, "spam", tk.msg.author, now)
       THEN Step(t, CallPunish(tk1, "spam", "return"))
       ELSE Step(t, [tk1 EXCEPT !.pc = "attach_spam"])
    /\ UNCHANGED <<modvars, now, stored, mod_loaded>>

ScanAttachSpam(t) ==
    LET tk == tasks[t]
        bh == Record(Limits, "attach_spam", tk.msg.author, now)
        tk1 == [tk EXCEPT !.log = Append(@, Ev("acquire", "attach_spam", 0, 0))]
    IN
    /\ cur = t
    /\ tk.pc = "attach_spam"
    /\ IF tk.policies["attach_spam"].state # "disabled" /\ tk.msg.attachments
       THEN /\ SetLimits(bh)
            /\ IF is_rate_limited(bh.b, "attach_spam", tk.msg.author, now)
               THEN Step(t, CallPunish(tk1, "attach_spam", "content"))
               ELSE Step(t, [tk1 EXCEPT !.pc = "caps"])
       ELSE /\ Step(t, [tk EXCEPT !.pc = "caps"])
            /\ UNCHANGED <<buckets, hist>>
    /\ UNCHANGED <<modvars, now, stored, mod_loaded>>

ScanCaps_from_15(t) ==
    LET tk == tasks[t]
        c == tk.msg.content
    IN
    /\ cur = t
    /\ tk.pc = "caps"
    /\ IF c.len = 0 THEN Step(t, [tk EXCEPT !.pc = "done"])
       ELSE IF tk.policies["caps"].state # "disabled" /\ c.len >= 15
       THEN IF c.alnum = 0
            THEN Step(t, [tk EXCEPT !.pc = "error"])
            ELSE IF 10 * c.upper >= 6 * c.alnum
            THEN Step(t, CallPunish(tk, "caps", "return"))
            ELSE Step(t, [tk EXCEPT !.pc = "bad_words"])
       ELSE Step(t, [tk EXCEPT !.pc = "bad_words"])
    /\ UNCHANGED <<modvars, now, stored, mod_loaded, buckets, hist>>

\* "if not message.content: return", then the caps detector
ScanCaps(t) ==
    LET tk == tasks[t]
        c == tk.msg.content
    IN
    /\ cur = t
    /\ tk.pc = "caps"
    /\ IF c.len = 0 THEN Step(t, [tk EXCEPT !.pc = "done"])
       ELSE IF tk.policies["caps"].state # "disabled" /\ c.len > 15
       THEN IF c.alnum = 0
            THEN Step(t, [tk EXCEPT !.pc = "error"])  \* len(uppers) / len(chars)
            ELSE IF 10 * c.upper > 6 * c.alnum
            THEN Step(t, CallPunish(tk, "caps", "return"))
            ELSE Step(t, [tk EXCEPT !.pc = "bad_words"])
       ELSE Step(t, [tk EXCEPT !.pc = "bad_words"])
    /\ UNCHANGED <<modvars, now, stored, mod_loaded, buckets, hist>>

\* " " in bad_word
HasSpace(w) == w \in {"very bad"}

ScanBadWords(t) ==
    LET tk == tasks[t]
        c == tk.msg.content
        bw == tk.policies["bad_words"]
    IN
    /\ cur = t
    /\ tk.pc = "bad_words"
    /\ IF /\ bw.state # "disabled"
          /\ \/ \E w \in c.words : w \in bw.words_list
             \/ \E w \in bw.words_list : HasSpace(w) /\ w \in c.subs
             \/ \E w \in bw.words_list_wildcard : w \in c.subs
       THEN Step(t, CallPunish(tk, "bad_words", "return"))
       ELSE Step(t, [tk EXCEPT !.pc = "invites"])
    /\ UNCHANGED <<modvars, now, stored, mod_loaded, buckets, hist>>

ScanInvites(t) ==
    LET tk == tasks[t] IN
    /\ cur = t
    /\ tk.pc = "invites"
    /\ IF tk.policies["invites"].state # "disabled" /\ tk.msg.content.invite
       THEN Step(t, CallPunish(tk, "invites", "return"))
       ELSE Step(t, [tk EXCEPT !.pc = "link_spam"])
    /\ UNCHANGED <<modvars, now, stored, mod_loaded, buckets, hist>>

ScanLinkSpam_always_records(t) ==
    LET tk == tasks[t]
        bh == Record(Limits, "link_spam", tk.msg.author, now)
        tk1 == [tk EXCEPT !.log = Append(@, Ev("acquire", "link_spam", 0, 0))]
    IN
    /\ cur = t
    /\ tk.pc = "link_spam"
    /\ IF tk.policies["link_spam"].state = "disabled"
       THEN Step(t, [tk EXCEPT !.pc = "perspective"]) /\ UNCHANGED <<buckets, hist>>
       ELSE /\ SetLimits(bh)
            /\ IF is_rate_limited(bh.b, "link_spam", tk.msg.author, now)
               THEN Step(t, CallPunish(tk1, "link_spam", "return"))
               ELSE Step(t, [tk1 EXCEPT !.pc = "perspective"])
    /\ UNCHANGED <<modvars, now, stored, mod_loaded>>

ScanLinkSpam(t) ==
    LET tk == tasks[t]
        n == tk.msg.content.links
        bh == Record(Limits, "link_spam", tk.msg.author, now)
        tk1 == [tk EXCEPT !.log = Append(@, Ev("acquire", "link_spam", 0, 0))]
    IN
    /\ cur = t
    /\ tk.pc = "link_spam"
    /\ IF tk.policies["link_spam"].state = "disabled"
       THEN Step(t, [tk EXCEPT !.pc = "perspective"]) /\ UNCHANGED <<buckets, hist>>
       ELSE IF n > 7
       THEN Step(t, CallPunish(tk, "link_spam", "return")) /\ UNCHANGED <<buckets, hist>>
       ELSE IF n > 0
       THEN /\ SetLimits(bh)
            /\ IF is_rate_limited(bh.b, "link_spam", tk.msg.author, now)
               THEN Step(t, CallPunish(tk1, "link_spam", "return"))
               ELSE Step(t, [tk1 EXCEPT !.pc = "perspective"])
       ELSE Step(t, [tk EXCEPT !.pc = "perspective"]) /\ UNCHANGED <<buckets, hist>>
    /\ UNCHANGED <<modvars, now, stored, mod_loaded>>

\* The perspective branch up to "await plugin.app.perspective.analyze(...)".
ScanPerspective(t) ==
    LET tk == tasks[t] IN
    /\ cur = t
    /\ tk.pc = "perspective"
    /\ IF tk.policies["perspective"].state # "disabled"
       THEN Step(t, [tk EXCEPT !.pc = "analyze"])
       ELSE Step(t, [tk EXCEPT !.pc = "done"])
    /\ UNCHANGED <<modvars, now, stored, mod_loaded, buckets, hist>>

\* What analyze can give: a PerspectiveException (-1) or the highest score, in
\* percent.
Analyses == {-1, 50, 95}

AnalyzeDone_raises(t, resp) ==
    LET tk == tasks[t]
        tk1 == [tk EXCEPT !.log = Append(@, [Ev("analyze", "", 0, 0) EXCEPT !.ok = resp # -1])]
    IN
    /\ cur = 0
    /\ tk.pc = "analyze"
    /\ IF resp = -1 THEN Step(t, [tk1 EXCEPT !.pc = "error"])
       ELSE IF resp > tk.policies["perspective"].persp_bounds
       THEN Step(t, CallPunish(tk1, "perspective", "return"))
       ELSE Step(t, [tk1 EXCEPT !.pc = "done"])
    /\ UNCHANGED <<modvars, now, stored, mod_loaded, buckets, hist>>

\* await plugin.app.perspective.analyze(...) completes: with a
\* PerspectiveException, which is caught and ends the processing, or with
\* scores, of which the first above its bound leads to punish.
AnalyzeDone(t, resp) ==
    LET tk == tasks[t]
        tk1 == [tk EXCEPT !.log = Append(@, [Ev("analyze", "", 0, 0) EXCEPT !.ok = resp # -1])]
    IN
    /\ cur = 0
    /\ tk.pc = "analyze"
    /\ IF resp = -1 THEN Step(t, [tk1 EXCEPT !.pc = "done"])
       ELSE IF resp > tk.policies["perspective"].persp_bounds
       THEN Step(t, CallPunish(tk1, "perspective", "return"))
       ELSE Step(t, [tk1 EXCEPT !.pc = "done"])
    /\ UNCHANGED <<modvars, now, stored, mod_loaded, buckets, hist>>

\* ------------------------------------------------------------------- punish
\* Whether the invocation is an escalation follow-up (original_action is set).
FollowUp(tk) == tk.original # None

\* state = policies[action.value]["state"]
StateOf(tk) == tk.policies[tk.action].state

can_harm_unchecked(tk) == TRUE

\* helpers.can_harm(me, offender, permission=required_perms)
can_harm(tk) == tk.msg.can_harm

excluded_by_channel_only(tk) ==
    ~FollowUp(tk) /\ tk.msg.channel \in tk.policies[tk.action].excluded_channels

\* The channel check and the role check: both are skipped for a follow-up.
excluded(tk) ==
    \/ ~FollowUp(tk) /\ tk.msg.channel \in tk.policies[tk.action].excluded_channels
    \/ ~FollowUp(tk) /\ (tk.msg.roles \cap tk.policies[tk.action].excluded_roles) # {}

silencers_without_escalate(policies) ==
    {"timeout", "kick", "tempban", "softban", "permaban"}

\* States that silence the user, and escalate when it ends in one of them.
silencers(policies) ==
    LET base == {"timeout", "kick", "tempban", "softban", "permaban"} IN
    IF policies["escalate"].state \in base THEN base \cup {"escalate"} ELSE base

cooldown_never_blocks(b, key, t) == FALSE

\* if punish_ratelimiter.is_rate_limited(message): return
cooldown_blocks(b, key, t) == is_rate_limited(b, "punish", key, t)

temp_dur_of_acting_category(tk) == tk.policies[tk.action].temp_dur

temp_dur(tk) ==
    IF ~FollowUp(tk) THEN tk.policies[tk.action].temp_dur
    ELSE tk.policies[tk.original].temp_dur

should_delete_spam_too(tk) ==
    IF ~FollowUp(tk) THEN tk.policies[tk.action].delete ELSE FALSE

should_delete(tk) ==
    IF ~FollowUp(tk)
    THEN (IF tk.action # "spam" THEN tk.policies[tk.action].delete ELSE FALSE)
    ELSE FALSE

\* punish from its entry to "await helpers.maybe_delete(message)" or, when
\* nothing is to delete, to the plugin lookup.
PunishEnter(t) ==
    LET tk == tasks[t]
        key == tk.msg.author
        bh == Record(Limits, "punish", key, now)
        tk1 == [tk EXCEPT !.log = Append(@, Ev("acquire", "punish", 0, 0))]
        go(x) == [x EXCEPT !.pc = IF should_delete(x) THEN "maybe_delete" ELSE "dispatch"]
    IN
    /\ cur = t
    /\ tk.pc = "punish"
    /\ IF ~can_harm(tk) \/ excluded(tk) \/ StateOf(tk) = "disabled"
       THEN Step(t, Returned(tk)) /\ UNCHANGED <<buckets, hist>>
       ELSE IF StateOf(tk) \in silencers(tk.policies)
       THEN /\ SetLimits(bh)
            /\ IF cooldown_blocks(bh.b, key, now)
               THEN Step(t, Returned(tk1))
               ELSE Step(t, go(tk1))
       ELSE Step(t, go(tk)) /\ UNCHANGED <<buckets, hist>>
    /\ UNCHANGED <<modvars, now, stored, mod_loaded>>

\* await helpers.maybe_delete(message) completes.
MaybeDelete(t) ==
    LET tk == tasks[t] IN
    /\ cur = 0
    /\ tk.pc = "maybe_delete"
    /\ Step(t, [tk EXCEPT !.pc = "dispatch", !.log = Append(@, Ev("delete", "", 0, 0))])
    /\ UNCHANGED <<modvars, now, stored, mod_loaded, buckets, hist>>

\* helpers.utcnow() + datetime.timedelta(minutes=temp_dur), in seconds
Until(tk) == now + 60 * temp_dur(tk)

Calls_without_response(tk, state) ==
    CASE state = "flag" -> <<Ev("flag", "", 0, 0), Ev("respond", "", 0, 0)>>
      [] state = "notice" -> <<Ev("flag", "", 0, 0)>>
      [] state = "warn" -> <<Ev("warn", "", 0, 0)>>
      [] OTHER -> <<>>

\* The awaited calls of the branch taken for a state, in order.
Calls(tk, state) ==
    CASE state = "flag" -> <<Ev("flag", "", 0, 0)>>
      [] state = "notice" -> <<Ev("respond", "", 0, 0), Ev("flag", "", 0, 0)>>
      [] state = "warn" -> <<Ev("warn", "", 0, 0), Ev("respond", "", 0, 0)>>
      [] state = "timeout" -> <<Ev("timeout", "", Until(tk), now), Ev("respond", "", 0, 0)>>
      [] state = "kick" -> <<Ev("kick", "", 0, now), Ev("respond", "", 0, 0)>>
      [] state = "softban" -> <<Ev("ban", "soft", 0, now), Ev("respond", "", 0, 0)>>
      [] state = "tempban" -> <<Ev("ban", "temp", Until(tk), now), Ev("respond", "", 0, 0)>>
      [] state = "permaban" -> <<Ev("ban", "perma", 0, now), Ev("respond", "", 0, 0)>>
      [] OTHER -> <<>>

\* The task awaits the calls in todo, or returns from punish when none is left.
Await(tk, todo) ==
    IF todo = <<>> THEN Returned([tk EXCEPT !.todo = <<>>])
    ELSE [tk EXCEPT !.pc = "external", !.todo = todo]

PunishDispatch_recurses(t) ==
    LET tk == tasks[t]
        key == tk.msg.author
        state == StateOf(tk)
        esc == Record(Limits, "escalate", key, now)
        tk2 == [tk EXCEPT !.log = Append(@, Ev("acquire", "escalate", 0, 0))]
    IN
    /\ cur = t
    /\ tk.pc = "dispatch"
    /\ IF ~mod_loaded
       THEN Step(t, Returned(tk)) /\ UNCHANGED <<buckets, hist>>
       ELSE IF state # "escalate"
       THEN Step(t, Await(tk, Calls(tk, state))) /\ UNCHANGED <<buckets, hist>>
       ELSE /\ SetLimits(esc)
            /\ IF Len(tk.log) < 12
               THEN Step(t, [tk2 EXCEPT !.pc = "punish", !.action = "escalate",
                                        !.original = tk.action,
                                        !.log = Append(@, Ev("punish", "escalate", 1, 0))])
               ELSE Step(t, Returned(tk2))
    /\ UNCHANGED <<modvars, now, stored, mod_loaded>>

\* punish from the plugin lookup through the dispatch on state, up to the
\* first awaited call of the branch taken.
PunishDispatch(t) ==
    LET tk == tasks[t]
        key == tk.msg.author
        state == StateOf(tk)
        pre == Record(Limits, "escalate_prewarn", key, now)
        tk1 == [tk EXCEPT !.log = Append(@, Ev("acquire", "escalate_prewarn", 0, 0))]
        esc == Record(pre, "escalate", key, now)
        tk2 == [tk1 EXCEPT !.log = Append(@, Ev("acquire", "escalate", 0, 0))]
    IN
    /\ cur = t
    /\ tk.pc = "dispatch"
    /\ IF ~mod_loaded
       THEN Step(t, Returned(tk)) /\ UNCHANGED <<buckets, hist>>
       ELSE IF state # "escalate"
       THEN Step(t, Await(tk, Calls(tk, state))) /\ UNCHANGED <<buckets, hist>>
       ELSE IF ~is_rate_limited(pre.b, "escalate_prewarn", key, now)
       THEN Step(t, Await(tk1, Calls(tk1, "notice"))) /\ SetLimits(pre)
       ELSE IF is_rate_limited(pre.b, "escalate_prewarn", key, now)
       THEN Step(t, Await(tk1, Calls(tk1, "warn"))) /\ SetLimits(pre)
       ELSE /\ SetLimits(esc)
            /\ IF is_rate_limited(esc.b, "escalate", key, now)
               THEN Step(t, [tk2 EXCEPT !.pc = "punish", !.action = "escalate",
                                        !.original = tk.action,
                                        !.log = Append(@, Ev("punish", "escalate", 1, 0))])
               ELSE Step(t, Returned(tk2))
    /\ UNCHANGED <<modvars, now, stored, mod_loaded>>

External_goes_on(t, ok) ==
    LET tk == tasks[t]
        done == [tk EXCEPT !.log = Append(@, [Head(tk.todo) EXCEPT !.ok = ok])]
    IN
    /\ cur = 0
    /\ tk.pc = "external"
    /\ Step(t, Await(done, Tail(tk.todo)))
    /\ UNCHANGED <<modvars, now, stored, mod_loaded, buckets, hist>>

\* The awaited call at the head of todo completes (ok) or raises; a raised
\* error leaves punish and scan_messages uncaught.
External(t, ok) ==
    LET tk == tasks[t]
        done == [tk EXCEPT !.log = Append(@, [Head(tk.todo) EXCEPT !.ok = ok])]
        rest == Tail(tk.todo)
    IN
    /\ cur = 0
    /\ tk.pc = "external"
    /\ IF ~ok THEN Step(t, [done EXCEPT !.pc = "error", !.todo = <<>>])
       ELSE IF rest = <<>> THEN Step(t, Await(done, <<>>))
       ELSE Step(t, Await(done, rest))
    /\ UNCHANGED <<modvars, now, stored, mod_loaded, buckets, hist>>

\* Time passes while every task is suspended.
Tick ==
    /\ cur = 0
    /\ now + TickStep <= MaxTime
    /\ now' = now + TickStep
    /\ UNCHANGED <<modvars, stored, mod_loaded, buckets, hist, tasks, cur>>

\* ----------------------------------------------------------- specifications
TaskStep(t, msgs) ==
    \/ \E m \in msgs : MessageEvent(t, m)
    \/ FetchPolicies(t)
    \/ ScanMassMentions(t)
    \/ ScanSpam(t)
    \/ ScanAttachSpam(t)
    \/ ScanCaps(t)
    \/ ScanBadWords(t)
    \/ ScanInvites(t)
    \/ ScanLinkSpam(t)
    \/ ScanPerspective(t)
    \/ \E resp \in Analyses : AnalyzeDone(t, resp)
    \/ PunishEnter(t)
    \/ MaybeDelete(t)
    \/ PunishDispatch(t)
    \/ \E ok \in BOOLEAN : External(t, ok)

\* One message, under every stored document of WideRows.
InitScan ==
    /\ now = 0
    /\ stored \in WideRows
    /\ mod_loaded \in BOOLEAN
    /\ buckets = BusyBuckets
    /\ hist = BusyHistory
    /\ tasks = [t \in Tasks |-> IdleTask]
    /\ cur = 0
    /\ NoModeration

NextScan == TaskStep(1, Messages \cup IgnoredMessages)

SpecScan == InitScan /\ [][NextScan]_vars

\* Concurrent messages while time passes, under a few stored documents.
NarrowRows ==
    { <<MkDoc("flag", DetectorCats, "warn", "A")>>,
      <<MkDoc("escalate", {"link_spam"}, "warn", "B")>>,
      <<MkDoc("escalate", {"link_spam"}, "timeout", "B")>>,
      <<MkDoc("timeout", {"link_spam"}, "disabled", "B")>> }

NarrowMessages ==
    {m \in Messages :
        /\ m.channel = "c2" /\ m.roles = {} /\ m.can_harm
        /\ m.mentions = {}
        /\ ~m.attachments /\ m.content.len = 30 /\ ~m.content.invite
        /\ m.content.links \in {0, 8}}

Init ==
    /\ now = 0
    /\ stored \in NarrowRows
    /\ mod_loaded = TRUE
    /\ buckets = BusyBuckets
    /\ hist = BusyHistory
    /\ tasks = [t \in Tasks |-> IdleTask]
    /\ cur = 0
    /\ NoModeration

Next == Tick \/ \E t \in Tasks : TaskStep(t, NarrowMessages)

Spec == Init /\ [][Next]_vars

\* The policy store alone, under stored documents that lack keys of the
\* defaults or hold keys the defaults do not have.
BaseDoc == MkDoc("flag", {"caps"}, "warn", "A")

\* Function f without the keys in ks.
Without(f, ks) == [k \in DOMAIN f \ ks |-> f[k]]

PartialRows ==
    {NoRow} \cup
    { << (IF junk THEN [legacy |-> [state |-> "kick"]] ELSE <<>>) @@
         [k \in DOMAIN Without(BaseDoc, gone) |->
            IF k = "spam" THEN (IF more THEN [foo |-> 1] ELSE <<>>) @@ Without(BaseDoc[k], less)
            ELSE IF k = "mass_mentions" THEN Without(BaseDoc[k], less \cap {"delete"})
            ELSE BaseDoc[k]] >> :
        gone \in SUBSET {"caps", "escalate", "invites"},
        less \in SUBSET {"temp_dur", "delete", "state"},
        junk \in BOOLEAN, more \in BOOLEAN }

InitPolicies ==
    /\ now = 0
    /\ stored \in PartialRows
    /\ mod_loaded = TRUE
    /\ buckets = EmptyBuckets
    /\ hist = EmptyHistory
    /\ tasks = [t \in Tasks |-> IdleTask]
    /\ cur = 0
    /\ NoModeration

NextPolicies ==
    \/ \E m \in NarrowMessages : MessageEvent(1, m)
    \/ FetchPolicies(1)

SpecPolicies == InitPolicies /\ [][NextPolicies]_vars

\* punish alone, called with every pair of arguments (action, original_action)
\* its signature admits: a detector's call, and the escalation follow-up.
PunishRows ==
    {<<MkDoc(sp[1], DetectorCats, sp[2], x)>> : sp \in StatePairs, x \in {"A", "B"}}

PunishCalls ==
    {<<a, None>> : a \in DetectorCats} \cup {<<"escalate", a>> : a \in DetectorCats}

PunishMessages == {m \in Messages : m.mentions = {} /\ m.content.links = 1}

Invocation(m, row, call) ==
    [pc |-> "punish", msg |-> m, policies |-> get_policies(row),
     action |-> call[1], original |-> call[2], ret |-> "return", todo |-> <<>>,
     log |-> <<Ev("punish", call[1], IF call[2] = None THEN 0 ELSE 1, 0)>>]

\* m1 has tripped the punishment, prewarn and escalate limiters as well; m2
\* has no event in them.
TrippedBuckets ==
    [BusyBuckets EXCEPT !["punish"] = ("m1" :> <<0>>),
                        !["escalate_prewarn"] = ("m1" :> <<0>>),
                        !["escalate"] = ("m1" :> <<0>>)]

TrippedHistory ==
    [BusyHistory EXCEPT !["punish"]["m1"] = <<0>>,
                        !["escalate_prewarn"]["m1"] = <<0>>,
                        !["escalate"]["m1"] = <<0>>]

InitPunish ==
    /\ now = 0
    /\ stored \in PunishRows
    /\ mod_loaded \in BOOLEAN
    /\ buckets = TrippedBuckets
    /\ hist = TrippedHistory
    /\ \E m \in PunishMessages, call \in PunishCalls :
          tasks = [t \in Tasks |-> IF t = 1 THEN Invocation(m, stored, call) ELSE IdleTask]
    /\ cur = 1
    /\ NoModeration

NextPunish ==
    \/ PunishEnter(1)
    \/ MaybeDelete(1)
    \/ PunishDispatch(1)
    \/ \E ok \in BOOLEAN : External(1, ok)

SpecPunish == InitPunish /\ [][NextPunish]_vars

\* The event loop resumes a task that can run, and every awaited call
\* completes or raises.
SpecPunishFair == SpecPunish /\ WF_vars(NextPunish)

\* ------------------------------------------------------ moderation actions
\* The slot of the next coroutine to start, 0 when none is left.
Free ==
    IF \E c \in CallIds : calls[c].pc = "idle"
    THEN CHOOSE c \in CallIds : calls[c].pc = "idle" /\ \A d \in CallIds : d < c => calls[d].pc # "idle"
    ELSE 0

Start(op, pc, m, T, n) ==
    /\ Free # 0
    /\ calls' = [calls EXCEPT ![Free] = [op |-> op, pc |-> pc, member |-> m, T |-> T, db_user |-> n]]

Move(c, pc) == calls' = [calls EXCEPT ![c].pc = pc]

\* warn up to db_user.update(): the row is fetched and the object's count is
\* raised by one.
WarnFetch(m) ==
    /\ Start("warn", "update", m, 0, warns[m] + 1)
    /\ UNCHANGED <<now, automodvars, warns, warns0, timers, banned, present, until>>

\* warns remove up to db_user.update(), or to its end when the count is 0.
RemoveFetch(m) ==
    /\ IF warns[m] = 0 THEN Start("warns_remove", "done", m, 0, 0)
       ELSE Start("warns_remove", "update", m, 0, warns[m] - 1)
    /\ UNCHANGED <<now, automodvars, warns, warns0, timers, banned, present, until>>

\* warns clear up to db_user.update().
ClearFetch(m) ==
    /\ Start("warns_clear", "update", m, 0, 0)
    /\ UNCHANGED <<now, automodvars, warns, warns0, timers, banned, present, until>>

\* db_user.update() writes the object's count to the row; the rest of the
\* command changes no state.
DatabaseUserUpdate(c) ==
    /\ calls[c].pc = "update"
    /\ warns' = [warns EXCEPT ![calls[c].member] = calls[c].db_user]
    /\ Move(c, "done")
    /\ UNCHANGED <<now, automodvars, warns0, timers, banned, present, until>>

\* A timer the scheduler holds.
Timer(event, user, expires, notes) ==
    [event |-> event, user |-> user, expires |-> expires, notes |-> notes]

\* member.edit(communication_disabled_until=expiry); it raises for a user who
\* is no longer a member.
Edit(c, expiry) ==
    LET m == calls[c].member IN
    IF m \in present
    THEN /\ until' = [until EXCEPT ![m] = [expiry |-> expiry, at |-> now]]
         /\ Move(c, "done")
    ELSE /\ Move(c, "error")
         /\ UNCHANGED until

\* timeout up to the direct message to the member.
TimeoutCall(m, T) ==
    /\ m \in present
    /\ Start("timeout", "check", m, T, 0)
    /\ UNCHANGED <<now, automodvars, warns, warns0, timers, banned, present, until>>

\* timeout from the comparison of the duration with the longest segment up to
\* the end of the next call: create_timer for a long duration, member.edit
\* for a short one.
TimeoutCheck(c) ==
    LET m == calls[c].member
        T == calls[c].T
    IN
    /\ calls[c].op = "timeout"
    /\ calls[c].pc = "check"
    /\ IF T > now + MAX_TIMEOUT_SECONDS
       THEN /\ timers' = timers \cup {Timer("timeout_extend", m, now + MAX_TIMEOUT_SECONDS, T)}
            /\ Move(c, "edit")
            /\ UNCHANGED until
       ELSE /\ Edit(c, T)
            /\ UNCHANGED timers
    /\ UNCHANGED <<now, automodvars, warns, warns0, banned, present>>

\* The member.edit after create_timer, of timeout and of timeout_extend: the
\* expiry is the longest segment from the time of this call.
SegmentEdit(c) ==
    /\ calls[c].pc = "edit"
    /\ Edit(c, now + MAX_TIMEOUT_SECONDS)
    /\ UNCHANGED <<now, automodvars, warns, warns0, timers, banned, present>>

\* ban of a member: the bot has the permission and stands above them; a soft
\* ban is lifted at once and a ban with a duration leaves a tempban timer.
BanCall(u, kind, T) ==
    /\ u \in present
    /\ banned' = IF kind = "soft" THEN banned \ {u} ELSE banned \cup {u}
    /\ present' = present \ {u}
    /\ timers' = IF kind = "temp" THEN timers \cup {Timer("tempban", u, T, None)} ELSE timers
    /\ UNCHANGED <<now, automodvars, warns, warns0, until, calls>>

\* The listener timeout_extend for a completed timer, up to its first call
\* that is followed by another.
timeout_extend(tm) ==
    IF tm.event # "timeout_extend"
    THEN UNCHANGED <<calls, until>> /\ timers' = timers \ {tm}
    ELSE IF tm.user \notin present
    THEN /\ Start("timeout_extend", "timeout_on_join", tm.user, tm.notes, 0)
         /\ timers' = timers \ {tm}
         /\ UNCHANGED until
    ELSE IF tm.notes - now > MAX_TIMEOUT_SECONDS
    THEN /\ Start("timeout_extend", "edit", tm.user, tm.notes, 0)
         /\ timers' = (timers \ {tm})
                        \cup {Timer("timeout_extend", tm.user, now + MAX_TIMEOUT_SECONDS, tm.notes)}
         /\ UNCHANGED until
    ELSE /\ UNCHANGED calls
         /\ until' = [until EXCEPT ![tm.user] = [expiry |-> now + (tm.notes - now), at |-> now]]
         /\ timers' = timers \ {tm}

\* The listener tempban_expire for a completed timer: the timer's user is
\* unbanned, and a failure is swallowed.
tempban_expire(tm) == banned' = banned \ {tm.user}

\* A timer expires: the scheduler drops it and dispatches TimerCompleteEvent,
\* which both listeners receive.
TimerComplete(tm) ==
    /\ tm \in timers
    /\ tm.expires <= now
    /\ timeout_extend(tm)
    /\ tempban_expire(tm)
    /\ UNCHANGED <<now, automodvars, warns, warns0, present>>

\* A member leaves the guild.
Leave(m) ==
    /\ m \in present
    /\ present' = present \ {m}
    /\ UNCHANGED <<now, automodvars, warns, warns0, timers, banned, until, calls>>

\* A second passes.
Clock ==
    /\ now < MaxClock
    /\ now' = now + 1
    /\ UNCHANGED <<automodvars, modvars>>

\* The automod engine at rest.
NoAutomod ==
    /\ stored = NoRow
    /\ mod_loaded = TRUE
    /\ buckets = EmptyBuckets
    /\ hist = EmptyHistory
    /\ tasks = [t \in Tasks |-> IdleTask]
    /\ cur = 0

\* Warn commands and automod warns for members with zero or one stored warn.
InitWarns ==
    /\ now = 0
    /\ NoAutomod
    /\ warns \in [Members -> 0..1]
    /\ warns0 = warns
    /\ timers = {}
    /\ banned = {}
    /\ present = Members
    /\ until = [m \in Members |-> NoTimeout]
    /\ calls = [c \in CallIds |-> IdleCall]

NextWarns ==
    \/ \E m \in Members : WarnFetch(m)
    \/ \E m \in Members : RemoveFetch(m)
    \/ \E m \in Members : ClearFetch(m)
    \/ \E c \in CallIds : DatabaseUserUpdate(c)

SpecWarns == InitWarns /\ [][NextWarns]_vars

\* Timeouts and bans while time passes and timers complete.  A timeout lasts
\* less than one segment, more than one, or more than two.
Durations == {1, MAX_TIMEOUT_SECONDS + 1, 2 * MAX_TIMEOUT_SECONDS + 1}

\* The member the timeouts and bans are about.
Subjects == {"m1"}

InitTimers ==
    /\ now = 0
    /\ NoAutomod
    /\ NoModeration

NextTimers ==
    \/ Clock
    \/ \E m \in Subjects, d \in Durations : now + d <= MaxClock /\ TimeoutCall(m, now + d)
    \/ \E c \in CallIds : TimeoutCheck(c)
    \/ \E c \in CallIds : SegmentEdit(c)
    \/ \E u \in Subjects, kind \in {"perma", "soft", "temp"} : BanCall(u, kind, now + 1)
    \/ \E tm \in timers : TimerComplete(tm)
    \/ \E m \in Subjects : Leave(m)

SpecTimers == InitTimers /\ [][NextTimers]_vars

\* ------------------------------------------------------ reading a task's log
\* The places of the log where punish was entered.
PunishAt(log) == {i \in DOMAIN log : log[i].k = "punish"}

\* The entries a punish invocation entered at place i has recorded so far:
\* those after i and before the next entry into punish.
Segment(log, i) ==
    {j \in DOMAIN log : j > i /\ \A p \in PunishAt(log) : p > i => j < p}

\* Calls to the moderation executor that issue a punishment.
ModActions == {"warn", "timeout", "kick", "ban"}

\* What punish can do: delete, flag, respond, punish, or record an event in
\* the punishment, prewarn or escalate limiter.
IsEffect(e) ==
    \/ e.k \in {"delete", "flag", "respond"} \cup ModActions
    \/ e.k = "acquire" /\ e.a \in {"punish", "escalate_prewarn", "escalate"}

\* The message of task tk is excluded from category a by channel or by role.
IsExcluded(tk, a) ==
    \/ tk.msg.channel \in tk.policies[a].excluded_channels
    \/ \E r \in tk.msg.roles : r \in tk.policies[a].excluded_roles

Silencing == {"timeout", "kick", "softban", "tempban", "permaban"}

\* ------------------------------------------------------------------- claims

\* C1: for every message processed by scan_messages, punish is entered at
\* most once: after the first detector that matches no later detector leads
\* to a second entry into punish for the same message.
C1_PunishEnteredAtMostOnce ==
    \A t \in Tasks :
        Cardinality({i \in PunishAt(tasks[t].log) : tasks[t].log[i].d = 0}) <= 1

\* The completed violations of member m: finished tasks of m that entered
\* punish once, not excluded, the bot having standing.
Violations(m) ==
    {t \in Tasks :
        /\ tasks[t].msg.author = m
        /\ tasks[t].pc = "done"
        /\ Cardinality(PunishAt(tasks[t].log)) = 1
        /\ tasks[t].msg.can_harm
        /\ ~IsExcluded(tasks[t], tasks[t].action)}

Has(t, kinds) == \E i \in DOMAIN tasks[t].log : tasks[t].log[i].k \in kinds

\* C2: with category X in state escalate and escalate's own state timeout,
\* a member's first violation gives a public notice and a flag and neither a
\* warn nor a timeout, a second one inside the prewarn window gives a warn,
\* and a third inside both windows invokes the timeout action.
C2_EscalationChain ==
    \A m \in Members :
        LET V == Violations(m) IN
        ( /\ mod_loaded
          /\ now < period("escalate_prewarn") /\ now < period("escalate")
          /\ stored # NoRow /\ stored[1]["escalate"].state = "timeout"
          /\ \A t \in Tasks : tasks[t].msg.author = m => t \in V
          /\ \A t \in V : tasks[t].policies[tasks[t].action].state = "escalate" )
        => /\ V # {} => \E t \in V : /\ Has(t, {"respond"}) /\ Has(t, {"flag"})
                                      /\ ~Has(t, {"warn", "timeout"})
           /\ Cardinality(V) >= 2 => \E t \in V : Has(t, {"warn"})
           /\ Cardinality(V) >= 3 => \E t \in V : Has(t, {"timeout"})

\* The call that the dispatch of punish makes first for task tk.
FirstCall(tk) == Head(Calls(tk, StateOf(tk)))

\* An escalation follow-up that ends in a timed action, the two categories
\* having different temp_dur.
TimedFollowUp(tk) ==
    /\ tk.pc = "punish"
    /\ tk.action = "escalate" /\ FollowUp(tk)
    /\ StateOf(tk) \in {"timeout", "tempban"}
    /\ tk.policies["escalate"].temp_dur # tk.policies[tk.original].temp_dur

SilencingCalls(m) ==
    {x \in Tasks \X (1..20) :
        /\ tasks[x[1]].msg.author = m
        /\ x[2] \in DOMAIN tasks[x[1]].log
        /\ tasks[x[1]].log[x[2]].k \in {"timeout", "kick", "ban"}}

C5_FirstSilencingViolationActs ==
    \A t \in Tasks :
        LET tk == tasks[t]
            a == tk.action
            acts == {i \in DOMAIN tk.log : tk.log[i].k \in ModActions}
        IN  ( /\ tk.pc = "done"
              /\ Cardinality(PunishAt(tk.log)) = 1
              /\ mod_loaded
              /\ tk.msg.can_harm
              /\ ~IsExcluded(tk, a)
              /\ tk.policies[a].state \in Silencing
              /\ Len(hist["punish"][tk.msg.author]) <= 1 )
            => /\ Cardinality(acts) = 1
               /\ \A i \in acts :
                    LET e == tk.log[i]
                        s == tk.policies[a].state
                    IN  \/ s = "timeout" /\ e.k = "timeout"
                                         /\ e.d = e.at + 60 * tk.policies[a].temp_dur
                        \/ s = "kick" /\ e.k = "kick"
                        \/ s = "softban" /\ e.k = "ban" /\ e.a = "soft"
                        \/ s = "tempban" /\ e.k = "ban" /\ e.a = "temp"
                                         /\ e.d = e.at + 60 * tk.policies[a].temp_dur
                        \/ s = "permaban" /\ e.k = "ban" /\ e.a = "perma"

\* C6: a punish invocation that is not an escalation follow-up, for a message
\* whose channel is in the category's excluded_channels or whose author has a
\* role in its excluded_roles, deletes nothing, calls no moderation action,
\* flags nothing, responds nothing and records no event in the punishment,
\* prewarn and escalate limiters.
C6_ExcludedNoEffect ==
    \A t \in Tasks :
        LET tk == tasks[t] IN
        \A i \in PunishAt(tk.log) :
            (tk.log[i].d = 0 /\ IsExcluded(tk, tk.log[i].a))
                => \A j \in Segment(tk.log, i) : ~IsEffect(tk.log[j])

\* C6's case: an invocation that has returned for a member with an excluded
\* role, in a channel that is not excluded, which would have punished.
C6_Witness ==
    \E t \in Tasks :
        LET tk == tasks[t] IN
        /\ tk.pc = "done"
        /\ mod_loaded
        /\ tk.msg.can_harm
        /\ \E i \in PunishAt(tk.log) :
              /\ tk.log[i].d = 0
              /\ tk.msg.channel \notin tk.policies[tk.log[i].a].excluded_channels
              /\ \E r \in tk.msg.roles : r \in tk.policies[tk.log[i].a].excluded_roles
              /\ tk.policies[tk.log[i].a].state \in {"flag", "notice", "warn"}

\* C7: when the bot lacks standing over the offender, punish returns without
\* an error and without effect: no limiter event, no deletion, no flag, no
\* moderation action, no response.
C7_NoStandingNoEffect ==
    \A t \in Tasks :
        LET tk == tasks[t] IN
        ~tk.msg.can_harm
            => /\ \A i \in PunishAt(tk.log) :
                    \A j \in Segment(tk.log, i) : ~IsEffect(tk.log[j])
               /\ tk.pc \notin {"maybe_delete", "dispatch", "external"}
               /\ tk.pc = "error" => tk.msg.content.alnum = 0

\* C7's case: punish has returned for a message that is not excluded and
\* whose category would have punished, the bot lacking standing.
C7_Witness ==
    \E t \in Tasks :
        LET tk == tasks[t] IN
        /\ tk.pc = "done"
        /\ mod_loaded
        /\ ~tk.msg.can_harm
        /\ \E i \in PunishAt(tk.log) :
              /\ ~IsExcluded(tk, tk.log[i].a)
              /\ tk.policies[tk.log[i].a].state \in {"flag", "notice", "warn"}

\* The tasks that hold a document returned by get_policies.
Resolved == {t \in Tasks : tasks[t].pc \notin {"idle", "get_policies"} /\ tasks[t].msg.is_member /\ ~tasks[t].msg.is_bot}

\* C8: for every stored document, and for none stored, the document that
\* get_policies returns has exactly the top-level keys of the defaults, and
\* under each of them every nested key of the defaults.
C8_ResultHasDefaultKeys ==
    \A t \in Resolved :
        LET p == tasks[t].policies IN
        /\ DOMAIN p = DOMAIN default_automod_policies
        /\ \A k \in DOMAIN default_automod_policies :
              DOMAIN default_automod_policies[k] \subseteq DOMAIN p[k]

\* C8's case: a document resolved from a stored one that has a key the
\* defaults lack, lacks a top-level key and lacks a nested key of the defaults.
C8_Witness ==
    \E t \in Resolved :
        /\ stored # NoRow
        /\ \E k \in DOMAIN stored[1] : k \notin DOMAIN default_automod_policies
        /\ \E k \in DOMAIN default_automod_policies : k \notin DOMAIN stored[1]
        /\ \E k \in DOMAIN default_automod_policies \cap DOMAIN stored[1] :
              \E n \in DOMAIN default_automod_policies[k] : n \notin DOMAIN stored[1][k]

\* C9: get_policies merges stored over default: at every default category k
\* and nested key n the result holds the stored value when the stored
\* document has (k, n) and the default value otherwise; with no stored row
\* the result is the default document.
C9_StoredOverDefault ==
    \A t \in Resolved :
        LET p == tasks[t].policies IN
        /\ stored = NoRow => p = default_automod_policies
        /\ stored # NoRow =>
              \A k \in DOMAIN default_automod_policies :
                \A n \in DOMAIN default_automod_policies[k] :
                    /\ k \in DOMAIN p /\ n \in DOMAIN p[k]
                    /\ p[k][n] = IF k \in DOMAIN stored[1] /\ n \in DOMAIN stored[1][k]
                                  THEN stored[1][k][n]
                                  ELSE default_automod_policies[k][n]

\* C9's case: a resolved document of which one value comes from the stored
\* document and differs from the default, and one comes from the defaults for
\* a nested key the stored document lacks.
C9_Witness ==
    \E t \in Resolved :
        /\ stored # NoRow
        /\ \E k \in DOMAIN default_automod_policies \cap DOMAIN stored[1] :
              /\ \E n \in DOMAIN default_automod_policies[k] \cap DOMAIN stored[1][k] :
                    stored[1][k][n] # default_automod_policies[k][n]
              /\ \E n \in DOMAIN default_automod_policies[k] : n \notin DOMAIN stored[1][k]

\* The events of limiter l for key k that lie in the trailing period at now,
\* by the history of every acquire.
Recent(l, k) == {i \in DOMAIN hist[l][k] : now - hist[l][k][i] < period(l)}

\* C10: for every limiter (max N, period P) and every key: after N acquires
\* for the key within P is_rate_limited is true for it, and once P has
\* elapsed without a further acquire for the key it is false again.
C10_LimitedAfterMaxUntilPeriod ==
    \A l \in Limiters, k \in Members :
        /\ Cardinality(Recent(l, k)) >= limit(l) => is_rate_limited(buckets, l, k, now)
        /\ Recent(l, k) = {} => ~is_rate_limited(buckets, l, k, now)

\* C10's case: one key tripped its limiter and the period has since elapsed,
\* while another key has just reached the maximum of a limiter.
C10_Witness ==
    /\ \E l \in Limiters, k \in Members :
          Len(hist[l][k]) >= limit(l) /\ Recent(l, k) = {}
    /\ \E l \in Limiters, k \in Members :
          Cardinality(Recent(l, k)) >= limit(l) /\ hist[l][k][Len(hist[l][k])] > 0

\* C11: is_rate_limited is a pure read: the buckets of a limiter change for a
\* key only in a step that records an acquire for that limiter and key, however
\* often the step asks is_rate_limited; and for a key that never had an acquire
\* the answer is false.
C11_CheckIsPureRead ==
    /\ [](\A l \in Limiters, k \in Members :
            hist[l][k] = <<>> => ~is_rate_limited(buckets, l, k, now))
    /\ [][\A l \in Limiters, k \in Members :
            Bucket(buckets', l, k) # Bucket(buckets, l, k)
                => Len(hist'[l][k]) = Len(hist[l][k]) + 1]_vars

\* C11's case: a task has recorded an event and asked the limiter twice in
\* one step (the prewarn check of the escalation branch), while another
\* member has no bucket in that limiter.
C11_Witness ==
    \E t \in Tasks :
        /\ \E i \in DOMAIN tasks[t].log :
              tasks[t].log[i].k = "acquire" /\ tasks[t].log[i].a = "escalate_prewarn"
        /\ \E k \in Members :
              k # tasks[t].msg.author /\ k \notin DOMAIN buckets["escalate_prewarn"]

\* The members whose message a task was processing in the step.
Stepped == {tasks'[t].msg.author : t \in {u \in Tasks : tasks'[u] # tasks[u]}}

\* C12: an acquire on limiter L for member k changes the answer of
\* is_rate_limited only for (L, k): in a step in which no time passes the
\* answer for (l, k) changes only if the step recorded an acquire on l for k,
\* and acquires are recorded only for the member whose message the stepping
\* task processes; so the answers for every other member are unchanged.
C12_AcquireChangesOnlyItsKey ==
    [][now' = now =>
        \A l \in Limiters, k \in Members :
            /\ is_rate_limited(buckets', l, k, now) # is_rate_limited(buckets, l, k, now)
                  => Len(hist'[l][k]) > Len(hist[l][k])
            /\ hist'[l][k] # hist[l][k] => k \in Stepped
            /\ k \notin Stepped
                  => is_rate_limited(buckets', l, k, now) = is_rate_limited(buckets, l, k, now)]_vars

\* C12's case: tasks of two members are in flight; one member has tripped a
\* limiter by an acquire of its task, the other member's answer for the same
\* limiter, and the first member's answer for another limiter, are false.
C12_Witness ==
    \E t1, t2 \in Tasks :
        LET a == tasks[t1].msg.author
            b == tasks[t2].msg.author
        IN  /\ tasks[t1].pc \notin {"idle", "done", "error"}
            /\ tasks[t2].pc \notin {"idle", "done", "error"}
            /\ a # b
            /\ \E i \in DOMAIN tasks[t1].log :
                  tasks[t1].log[i].k = "acquire" /\ tasks[t1].log[i].a = "escalate_prewarn"
            /\ is_rate_limited(buckets, "escalate_prewarn", a, now)
            /\ ~is_rate_limited(buckets, "escalate_prewarn", b, now)
            /\ ~is_rate_limited(buckets, "punish", a, now)

\* The limiter that a category's detector records in.
LimiterOf(c) == IF c \in {"spam", "attach_spam", "link_spam"} THEN c ELSE None

\* C13: for every category whose state is disabled, processing a message never
\* leads to punish for the category and records no event in the category's
\* rate limiter (spam, attach_spam, link_spam).
C13_DisabledDetectorSkipped ==
    \A t \in Resolved :
        LET tk == tasks[t] IN
        \A c \in DetectorCats :
            tk.policies[c].state = "disabled"
                => \A i \in DOMAIN tk.log :
                      /\ ~(tk.log[i].k = "punish" /\ tk.log[i].a = c)
                      /\ ~(tk.log[i].k = "acquire" /\ tk.log[i].a = LimiterOf(c))

\* C14: a message without text content, or whose author is a bot or is not a
\* member of the guild, runs no detector: no limiter event is recorded for it
\* and punish is not invoked.
C14_GateBeforeDetectors ==
    \A t \in Tasks :
        LET tk == tasks[t] IN
        (tk.pc # "idle" /\ (tk.msg.content.len = 0 \/ tk.msg.is_bot \/ ~tk.msg.is_member))
            => \A i \in DOMAIN tk.log : tk.log[i].k \notin {"acquire", "punish"}

\* Whether the message of task tk matches the detector of category c, for the
\* detectors that read only the message and the policies.
Matches(tk, c) ==
    LET m == tk.msg
        p == tk.policies[c]
    IN  /\ p.state # "disabled"
        /\ CASE c = "mass_mentions" -> CountMentions(m) >= p.count
              [] c = "caps" ->
                    /\ m.content.len > 15 /\ m.content.alnum > 0
                    /\ 10 * m.content.upper > 6 * m.content.alnum
              [] c = "bad_words" ->
                    /\ m.content.len > 0
                    /\ \/ \E w \in m.content.words : w \in p.words_list
                       \/ \E w \in p.words_list : HasSpace(w) /\ w \in m.content.subs
                       \/ \E w \in p.words_list_wildcard : w \in m.content.subs
              [] c = "invites" -> m.content.len > 0 /\ m.content.invite
              [] OTHER -> FALSE

\* The place of category c in the pipeline.
Place(c) == CHOOSE i \in DOMAIN Pipeline : Pipeline[i] = c

\* C15: the policy document is resolved before any detector is evaluated, and
\* a category handed to punish is the first matching one in the order
\* mass_mentions, spam, attach_spam, caps, bad_words, invites, link_spam,
\* perspective: no earlier detector has matched the message.
C15_FirstMatchIsPunished ==
    \A t \in Tasks :
        LET tk == tasks[t] IN
        /\ tk.pc \in {"idle", "get_policies"} => tk.log = <<>>
        /\ \A i \in PunishAt(tk.log) :
              tk.log[i].d = 0 =>
                \A j \in 1..(Place(tk.log[i].a) - 1) :
                    /\ ~Matches(tk, Pipeline[j])
                    /\ \A i2 \in PunishAt(tk.log) : tk.log[i2].a # Pipeline[j]

\* The invocation of punish entered at place i of tk's log got past the
\* preconditions and the cooldown guard: a state that is not silencing has no
\* cooldown; a silencing one shows that it went on by what it did next.
PassedGuards(tk, i) ==
    LET a == tk.log[i].a
        st == tk.policies[a].state
    IN  /\ tk.msg.can_harm
        /\ ~IsExcluded(tk, a)
        /\ st # "disabled"
        /\ st \in silencers(tk.policies)
              => \E j \in Segment(tk.log, i) : IsEffect(tk.log[j]) /\ tk.log[j].a # "punish"

\* The invocation entered at place i has not yet come to its deletion step.
BeforeDeletion(tk, i) ==
    /\ \A p \in PunishAt(tk.log) : p <= i
    /\ tk.pc \in {"punish", "maybe_delete"}

\* C16: a punish invocation that is not an escalation follow-up and passes the
\* preconditions and the cooldown guard deletes the offending message if and
\* only if the acting category's delete flag is set and the category is not
\* spam, and the deletion precedes every flag, response and moderation action
\* of the invocation.
C16_DeleteIffFlagAndNotSpam ==
    \A t \in Tasks :
        LET tk == tasks[t] IN
        \A i \in PunishAt(tk.log) :
            LET a == tk.log[i].a
                seg == Segment(tk.log, i)
                dels == {j \in seg : tk.log[j].k = "delete"}
                wants == tk.policies[a].delete /\ a # "spam"
            IN  tk.log[i].d = 0 =>
                  /\ Cardinality(dels) <= 1
                  /\ dels # {} => wants /\ PassedGuards(tk, i)
                  /\ (PassedGuards(tk, i) /\ ~BeforeDeletion(tk, i)) => (dels # {} <=> wants)
                  /\ \A j \in seg :
                        tk.log[j].k \in {"flag", "respond"} \cup ModActions
                            => /\ \A d \in dels : d < j
                               /\ wants => dels # {}

\* C16's case: an invocation that deleted the message and then warned and
\* responded.
C16_Witness ==
    \E t \in Tasks :
        LET tk == tasks[t] IN
        /\ tk.pc = "done"
        /\ \E i \in PunishAt(tk.log) :
              /\ tk.log[i].d = 0
              /\ \E d, j \in Segment(tk.log, i) :
                    d < j /\ tk.log[d].k = "delete" /\ tk.log[j].k = "warn"

\* The invocation entered at place i has returned to its caller.
Completed(tk, i) == tk.pc = "done" \/ \E p \in PunishAt(tk.log) : p > i

\* C17: every punish invocation that issues a notice, a warn, a timeout, a
\* kick or a ban posts a response in the channel, and an invocation whose
\* resolved state is flag creates a flag and posts no response.  At the
\* dispatch, the calls of the branch of warn and of every silencing state are
\* the moderation action followed by a response.
C17_ResponseExceptFlag ==
    \A t \in Tasks :
        LET tk == tasks[t] IN
        /\ tk.pc = "dispatch" =>
              \A st \in {"warn"} \cup Silencing :
                  LET cs == Calls(tk, st) IN
                  Len(cs) = 2 /\ cs[1].k \in ModActions /\ cs[2].k = "respond"
        /\ \A i \in PunishAt(tk.log) :
            LET seg == Segment(tk.log, i)
                st == tk.policies[tk.log[i].a].state
                responds == {r \in seg : tk.log[r].k = "respond" /\ tk.log[r].ok}
                acted == PassedGuards(tk, i) /\ mod_loaded
            IN  Completed(tk, i) =>
                  /\ \A j \in seg :
                        tk.log[j].k \in ModActions => \E r \in responds : r > j
                  /\ (st = "notice" /\ acted) => responds # {}
                  /\ st = "flag" => responds = {}
                  /\ (st = "flag" /\ acted) => \E f \in seg : tk.log[f].k = "flag"

\* C17's case: an invocation that warned and then responded has returned.
C17_Witness ==
    \E t \in Tasks :
        LET tk == tasks[t] IN
        /\ tk.pc = "done"
        /\ \E i \in PunishAt(tk.log) :
              \E j, r \in Segment(tk.log, i) :
                  j < r /\ tk.log[j].k = "warn" /\ tk.log[r].k = "respond"

C19_ClassifierFailureSwallowed ==
    \A t \in Tasks :
        LET tk == tasks[t] IN
        \A j \in DOMAIN tk.log :
            (tk.log[j].k = "analyze" /\ ~tk.log[j].ok) =>
                /\ tk.pc = "done"
                /\ j = Len(tk.log)
                /\ \A i \in PunishAt(tk.log) : tk.log[i].a # "perspective"

\* C19's case: the classifier failed for a message that no earlier detector
\* matched, perspective being enabled.
C19_Witness ==
    \E t \in Tasks :
        LET tk == tasks[t] IN
        /\ tk.policies["perspective"].state # "disabled"
        /\ PunishAt(tk.log) = {}
        /\ \E j \in DOMAIN tk.log : tk.log[j].k = "analyze" /\ ~tk.log[j].ok

\* C20: with link_spam enabled and no earlier detector matching, a message
\* with more than 7 URLs matches link_spam whatever the state of the link_spam
\* limiter and records no event in it; a message with 1 to 7 URLs records one
\* event and matches exactly if the limiter is then tripped; a message without
\* a URL records nothing and does not match.
C20_LinkSpamDetector ==
    [][\A t \in Tasks :
        LET tk == tasks[t]
            n == tk.msg.content.links
            a == tk.msg.author
            matched == tasks'[t].pc = "punish" /\ tasks'[t].action = "link_spam"
        IN  ( /\ tk.pc = "link_spam"
              /\ tasks'[t] # tk
              /\ tk.policies["link_spam"].state # "disabled" )
            => /\ n > 7 => matched /\ hist' = hist /\ buckets' = buckets
               /\ (n >= 1 /\ n <= 7) =>
                     /\ hist' = [hist EXCEPT !["link_spam"][a] = Append(@, now)]
                     /\ matched <=> is_rate_limited(buckets', "link_spam", a, now)
               /\ n = 0 => ~matched /\ hist' = hist /\ buckets' = buckets]_vars

\* C20's case: a message with more than 7 URLs has matched link_spam while
\* the limiter holds no event for its author.
C20_Witness ==
    \E t \in Tasks :
        LET tk == tasks[t] IN
        /\ tk.pc = "punish" /\ tk.action = "link_spam"
        /\ tk.msg.content.links > 7
        /\ tk.msg.author \notin DOMAIN buckets["link_spam"]

\* The invocation entered at place i has run its guards: it is past the
\* cooldown step or has returned.
PastGuards(tk, i) == ~(tk.pc = "punish" /\ \A p \in PunishAt(tk.log) : p <= i)

\* The places of the invocation entered at i where it recorded an event in
\* the punishment-cooldown limiter.
CooldownAt(tk, i) ==
    {j \in Segment(tk.log, i) : tk.log[j].k = "acquire" /\ tk.log[j].a = "punish"}

\* C21: a violation whose resolved state is escalate records an event in the
\* punishment-cooldown limiter, and is guarded by it, if and only if the state
\* of the escalate category is one of timeout, kick, tempban, softban,
\* permaban; otherwise it never touches that limiter.
C21_EscalateCooldownIffSilencing ==
    \A t \in Tasks :
        LET tk == tasks[t] IN
        \A i \in PunishAt(tk.log) :
            LET a == tk.log[i].a IN
            ( /\ tk.log[i].d = 0
              /\ tk.policies[a].state = "escalate"
              /\ tk.msg.can_harm /\ ~IsExcluded(tk, a)
              /\ PastGuards(tk, i) )
            => /\ CooldownAt(tk, i) # {} <=> tk.policies["escalate"].state \in Silencing
               /\ Cardinality(CooldownAt(tk, i)) <= 1
               /\ \A j \in CooldownAt(tk, i) :
                     /\ \A x \in Segment(tk.log, i) : x >= j
                     /\ is_rate_limited(buckets, "punish", tk.msg.author, now)
                            => \A x \in Segment(tk.log, i) : x = j

\* C21's case: a violation in state escalate, escalate's own state being
\* timeout, has recorded its event in the punishment-cooldown limiter.
C21_Witness ==
    \E t \in Tasks :
        LET tk == tasks[t] IN
        \E i \in PunishAt(tk.log) :
            /\ tk.policies[tk.log[i].a].state = "escalate"
            /\ tk.policies["escalate"].state = "timeout"
            /\ CooldownAt(tk, i) # {}

\* C22: with mass_mentions enabled, a message matches exactly if the number
\* of mentioned users that are neither its author nor bots is at least the
\* configured count; a mention of the author and mentions of bots do not
\* count.
C22_MassMentionsThreshold ==
    [][\A t \in Tasks :
        LET tk == tasks[t]
            others == {u \in tk.msg.mentions : u # tk.msg.author /\ u \notin BotUsers}
            matched == tasks'[t].pc = "punish" /\ tasks'[t].action = "mass_mentions"
        IN  ( /\ tk.pc = "mass_mentions"
              /\ tasks'[t] # tk
              /\ tk.policies["mass_mentions"].state # "disabled" )
            => (matched <=> Cardinality(others) >= tk.policies["mass_mentions"].count)]_vars

\* C22's case: a message that mentions its author and as many others as the
\* configured count has matched mass_mentions.
C22_Witness ==
    \E t \in Tasks :
        LET tk == tasks[t] IN
        /\ tk.pc = "punish" /\ tk.action = "mass_mentions"
        /\ tk.msg.author \in tk.msg.mentions
        /\ Cardinality(tk.msg.mentions \ {tk.msg.author}) = tk.policies["mass_mentions"].count

\* C23: with caps enabled and no earlier detector ending the processing, a
\* message matches exactly if its text is longer than 15 characters and
\* 10 * (uppercase alphanumerics) > 6 * (alphanumerics); a text of 15
\* characters or fewer never matches.
C23_CapsThreshold ==
    [][\A t \in Tasks :
        LET tk == tasks[t]
            c == tk.msg.content
            matched == tasks'[t].pc = "punish" /\ tasks'[t].action = "caps"
        IN  ( /\ tk.pc = "caps"
              /\ tasks'[t] # tk
              /\ tk.policies["caps"].state # "disabled" )
            => /\ matched <=> (c.len > 15 /\ 10 * c.upper > 6 * c.alnum)
               /\ c.len <= 15 => ~matched]_vars

\* C23's case: the caps detector has passed a text of 15 characters, all
\* uppercase, on to the next detector.
C23_Witness ==
    \E t \in Tasks :
        LET tk == tasks[t] IN
        /\ tk.pc = "bad_words"
        /\ tk.policies["caps"].state # "disabled"
        /\ tk.msg.content.len = 15 /\ tk.msg.content.upper = tk.msg.content.alnum
        /\ tk.msg.content.upper > 0

\* C28: the caps detector gives match or no match for every message longer
\* than 15 characters, also for one without any alphanumeric character: it
\* does not fail, and for such a message it reports no match and the later
\* detectors run.
C28_CapsNeverFails ==
    \A t \in Tasks :
        LET tk == tasks[t] IN
        tk.pc = "error" => \E j \in DOMAIN tk.log : ~tk.log[j].ok

\* C29: no deletion without a punishment: a punish invocation that deletes
\* the offending message goes on, unless a call to the executor fails, to
\* issue a flag, a notice, a warn or a silencing action; also when the
\* Moderation plugin is not loaded and when the resolved state is escalate.
C29_DeletionIsFollowedByPunishment ==
    \A t \in Tasks :
        LET tk == tasks[t] IN
        \A i \in PunishAt(tk.log) :
            LET seg == Segment(tk.log, i) IN
            ( /\ Completed(tk, i)
              /\ \E d \in seg : tk.log[d].k = "delete"
              /\ \A x \in seg : tk.log[x].ok )
            => \E j \in seg : tk.log[j].k \in {"flag", "respond"} \cup ModActions

\* The first entry into punish of a task, if any.
FirstPunish(tk) == {i \in PunishAt(tk.log) : \A p \in PunishAt(tk.log) : i <= p}

\* The invocation entered at place i was aborted by a guard: no standing,
\* channel or role excluded, or the cooldown.
Aborted(tk, i) ==
    /\ PastGuards(tk, i)
    /\ \/ ~tk.msg.can_harm
       \/ IsExcluded(tk, tk.log[i].a)
       \/ /\ CooldownAt(tk, i) # {}
          /\ \A x \in Segment(tk.log, i) : x \in CooldownAt(tk, i)
          /\ tk.pc \notin {"maybe_delete", "dispatch", "external"}

\* C30: when the punishment of the first matching detector is aborted
\* (channel or role excluded for the category, no standing, or cooldown), no
\* later detector is evaluated for the message and the message receives no
\* punishment; this for every detector of the pipeline.
C30_AbortedMatchEndsPipeline ==
    \A t \in Tasks :
        LET tk == tasks[t] IN
        \A i \in FirstPunish(tk) :
            Aborted(tk, i)
                => /\ tk.pc = "done"
                   /\ \A j \in DOMAIN tk.log : j > i => tk.log[j].k \in {"acquire"} /\ tk.log[j].a = "punish"

\* The entries into punish that are escalation follow-ups.
FollowUpAt(log) == {i \in PunishAt(log) : log[i].d = 1}

\* C27: punish terminates for every policy document and every limiter state,
\* also when the state of the escalate category is itself escalate: an
\* invocation starts at most one follow-up, a follow-up starts none, and
\* every invocation comes to its end.
C27_PunishTerminates ==
    /\ [](\A t \in Tasks :
            LET log == tasks[t].log IN
            /\ Cardinality(FollowUpAt(log)) <= 1
            /\ \A i \in FollowUpAt(log) : \A p \in PunishAt(log) : p <= i)
    /\ <>(\A t \in Tasks : tasks[t].pc \in {"idle", "done", "error"})

\* C27's case: a follow-up under a document whose escalate category is in
\* state escalate took the escalate branch again and has returned.
C27_Witness ==
    \E t \in Tasks :
        LET tk == tasks[t] IN
        /\ tk.pc = "done"
        /\ FollowUpAt(tk.log) # {}
        /\ tk.policies["escalate"].state = "escalate"
        /\ \E j \in DOMAIN tk.log : tk.log[j].k = "acquire" /\ tk.log[j].a = "escalate_prewarn"

\* ------------------------------------------------------------ moderation
\* C24: a timer completion unbans a user only when the completed timer is a
\* tempban timer; the completion of a timeout_extend timer for the same user
\* unbans nobody.
C24_OnlyTempbanTimerUnbans ==
    [][\A tm \in timers \ timers' :
          banned' # banned => tm.event = "tempban"]_vars

\* The coroutines of operation op about member m.
CallsOf(op, m) == {c \in CallIds : calls[c].op = op /\ calls[c].member = m}

\* C25: after n completed warn calls for a member, in any interleaving of
\* their fetch and update steps, the stored counter is n higher than before,
\* and the counter is never negative after warn, warns remove and warns clear.
C25_WarnCountsEveryCall ==
    \A m \in Members :
        /\ warns[m] >= 0
        /\ (/\ CallsOf("warns_remove", m) \cup CallsOf("warns_clear", m) = {}
            /\ \A c \in CallsOf("warn", m) : calls[c].pc = "done")
           => warns[m] = warns0[m] + Cardinality(CallsOf("warn", m))

\* C26, for a member who stays in the guild and whose timeout was requested
\* once, until T: every applied expiry is at most MAX_TIMEOUT_SECONDS after the
\* moment it is applied and never later than T, and a timeout_extend timer is
\* pending whenever the applied expiry is earlier than T.
C26_SegmentsWithinRequest ==
    \A m \in present : \A c \in CallsOf("timeout", m) :
        (Cardinality(CallsOf("timeout", m)) = 1 /\ until[m] # NoTimeout) =>
            /\ until[m].expiry <= until[m].at + MAX_TIMEOUT_SECONDS
            /\ until[m].expiry <= calls[c].T
            /\ until[m].expiry < calls[c].T =>
                  \E tm \in timers : tm.event = "timeout_extend" /\ tm.user = m

====
